---- MODULE Spec2Model ----
(***************************************************************************)
(* Model of the blackbox_exporter source of vector                         *)
(* (src/sources/blackbox_exporter/mod.rs): the probe URL builder           *)
(* (construct_probe_url), the per-target context construction              *)
(* (BlackboxExporterBuilder::build) and the tag enrichment                 *)
(* (BlackboxExporterContext::enrich_events / add_optional_label).          *)
(*                                                                         *)
(* Text is modelled as a sequence of bytes (0..255), so that percent       *)
(* encoding, percent decoding, UTF-8 validation and URI parsing are        *)
(* computed and not assumed.  An Option is a sequence of length 0 (None)   *)
(* or 1 (Some).                                                            *)
(***************************************************************************)
EXTENDS Integers, Sequences, FiniteSets, TLC

VARIABLES
    upc,        \* URL builder: "input", "built" (construct_probe_url returned), "context"
    ubase,      \* URL builder: the base endpoint, a parsed Uri
    utarget,    \* URL builder: the target string
    umodule,    \* URL builder: the module string
    uresult,    \* URL builder: the Result<Uri, InvalidUri> of construct_probe_url
    uctx        \* URL builder: the context BlackboxExporterBuilder::build makes of the built URL

uvars == <<upc, ubase, utarget, umodule, uresult, uctx>>

VARIABLES
    epc,        \* enrichment: "input", "done" (enrich_events returned)
    ectx,       \* enrichment: the BlackboxExporterContext (&mut self)
    ebefore,    \* enrichment: the batch as on_response returned it
    events      \* enrichment: the batch (&mut Vec<Event>), mutated in place

evars == <<epc, ectx, ebefore, events>>

VARIABLES
    cfg,        \* source: the BlackboxExporterConfig
    spc,        \* source: "configured", "running" (build returned Ok), "failed" (Err), "stopped"
    urls,       \* source: GenericHttpClientInputs::urls, one Uri per target
    context_builder, \* source: the BlackboxExporterBuilder handed to the poller
    req,        \* source: per URL, the scrape in progress: "idle", "sent", "pending"
    ctxs,       \* source: per URL, the context of the scrape in progress
    pending,    \* source: per URL, the enriched batch not yet handed downstream
    cycles,     \* source: per URL, the number of scrapes started
    last,       \* source: per URL, how its latest scrape ended: "none", "error", "unparsed", "events", "cancelled"
    out         \* source: the batches handed downstream, each with its URL's index and cycle

svars == <<cfg, spc, urls, context_builder, req, ctxs, pending, cycles, last, out>>

vars == <<uvars, evars, svars>>

---------------------------------------------------------------------------
(* Option and sequence helpers                                             *)

None == <<>>

Some(x) == <<x>>

IsSome(o) == Len(o) = 1

Unwrap(o) == o[1]

UnwrapOr(o, d) == IF IsSome(o) THEN o[1] ELSE d

Range(s) == {s[i] : i \in DOMAIN s}

\* The sequences over the set S of length at most n.
SeqsUpTo(S, n) == UNION {[1..k -> S] : k \in 0..n}

RECURSIVE Concat(_)
\* The concatenation of a sequence of sequences.
Concat(ss) == IF ss = <<>> THEN <<>> ELSE Head(ss) \o Concat(Tail(ss))

StartsWith(s, p) == Len(s) >= Len(p) /\ SubSeq(s, 1, Len(p)) = p

EndsWith(s, p) == Len(s) >= Len(p) /\ SubSeq(s, Len(s) - Len(p) + 1, Len(s)) = p

Contains(s, p) == \E i \in 1..(Len(s) - Len(p) + 1) : SubSeq(s, i, i + Len(p) - 1) = p

---------------------------------------------------------------------------
(* Bytes: the ASCII codes of the characters the model writes               *)

Lower == <<"a","b","c","d","e","f","g","h","i","j","k","l","m",
           "n","o","p","q","r","s","t","u","v","w","x","y","z">>

Upper == <<"A","B","C","D","E","F","G","H","I","J","K","L","M",
           "N","O","P","Q","R","S","T","U","V","W","X","Y","Z">>

Digits == <<"0","1","2","3","4","5","6","7","8","9">>

IndexOf(s, c) == CHOOSE i \in DOMAIN s : s[i] = c

\* The ASCII code of a one-character string.
Ord(c) ==
    IF c \in Range(Lower) THEN 96 + IndexOf(Lower, c)
    ELSE IF c \in Range(Upper) THEN 64 + IndexOf(Upper, c)
    ELSE IF c \in Range(Digits) THEN 47 + IndexOf(Digits, c)
    ELSE CASE c = " " -> 32
           [] c = "#" -> 35
           [] c = "%" -> 37
           [] c = "&" -> 38
           [] c = "/" -> 47
           [] c = ":" -> 58
           [] c = "=" -> 61
           [] c = "?" -> 63
           [] c = "@" -> 64
           [] c = "[" -> 91
           [] c = "]" -> 93
           [] c = "_" -> 95

\* The bytes of a text written as a sequence of one-character strings.
B(chars) == [i \in DOMAIN chars |-> Ord(chars[i])]

IsDigit(b) == b \in 48..57

IsAlpha(b) == b \in 65..90 \/ b \in 97..122

IsAlnum(b) == IsDigit(b) \/ IsAlpha(b)

ToLower(b) == IF b \in 65..90 THEN b + 32 ELSE b

EqIgnoreCase(s, t) ==
    Len(s) = Len(t) /\ \A i \in DOMAIN s : ToLower(s[i]) = ToLower(t[i])

---------------------------------------------------------------------------
(* http::Uri as the source uses it: `str::parse::<Uri>()` and the          *)
(* accessors scheme_str(), authority(), path() and query().  A Uri is      *)
(*   [scheme    : Option of bytes,                                         *)
(*    authority : bytes (empty when the Uri has none),                     *)
(*    data      : bytes of the path-and-query, fragment cut off,           *)
(*    query     : 0 when there is no query, else the index of "?" in data] *)

UriErr(kind) == [ok |-> FALSE, err |-> kind]

UriOk(u) == [ok |-> TRUE, uri |-> u]

\* Uri::from_str refuses a text longer than u16::MAX - 1 bytes.
UriTooLong(s) == Len(s) > 65534

\* SCHEME_CHARS: the bytes a scheme may consist of.
IsSchemeChar(b) == IsAlnum(b) \/ b \in {43, 45, 46}

\* URI_CHARS: the bytes an authority may hold ("%" is handled apart).
IsUriChar(b) ==
    IsAlnum(b) \/ b \in {33, 35, 36, 38, 39, 40, 41, 42, 43, 44, 45, 46, 47,
                         58, 59, 61, 63, 64, 91, 93, 95, 126}

\* The bytes PathAndQuery accepts in a path.
IsPathChar(b) ==
    \/ b = 33 \/ b \in 36..59 \/ b = 61 \/ b \in 64..95 \/ b \in 97..122
    \/ b = 124 \/ b = 126
    \/ b \in {34, 123, 125}

\* The bytes PathAndQuery accepts in a query.
IsQueryChar(b) == b = 33 \/ b \in 36..59 \/ b = 61 \/ b \in 63..126

\* The least index of s at or after i whose byte satisfies Stop, or Len(s) + 1.
FirstFrom(s, i, Stop(_)) ==
    IF \E j \in i..Len(s) : Stop(s[j])
    THEN CHOOSE j \in i..Len(s) : Stop(s[j]) /\ \A k \in i..(j - 1) : ~Stop(s[k])
    ELSE Len(s) + 1

\* Scheme2::parse: [ok, len, name]; len = 0 when the text has no scheme,
\* else the scheme is followed by "://".
SchemeParse(s) ==
    IF Len(s) >= 7 /\ EqIgnoreCase(SubSeq(s, 1, 7), B(<<"h","t","t","p",":","/","/">>))
    THEN [ok |-> TRUE, len |-> 4, name |-> B(<<"h","t","t","p">>)]
    ELSE IF Len(s) >= 8
            /\ EqIgnoreCase(SubSeq(s, 1, 8), B(<<"h","t","t","p","s",":","/","/">>))
    THEN [ok |-> TRUE, len |-> 5, name |-> B(<<"h","t","t","p","s">>)]
    ELSE IF Len(s) > 3
    THEN LET i == FirstFrom(s, 1, LAMBDA b : ~IsSchemeChar(b))
         IN  IF i <= Len(s) /\ s[i] = 58 /\ Len(s) >= i + 2
                /\ SubSeq(s, i + 1, i + 2) = <<47, 47>>
             THEN IF i - 1 > 64
                  THEN [ok |-> FALSE, len |-> 0, name |-> <<>>]
                  ELSE [ok |-> TRUE, len |-> i - 1, name |-> SubSeq(s, 1, i - 1)]
             ELSE [ok |-> TRUE, len |-> 0, name |-> <<>>]
    ELSE [ok |-> TRUE, len |-> 0, name |-> <<>>]

RECURSIVE AuthorityScan(_, _, _)
\* The loop of Authority::parse over s from index i, with its counters in st.
AuthorityScan(s, i, st) ==
    IF i > Len(s) \/ ~st.ok THEN st
    ELSE LET b == s[i] IN
         IF b \in {47, 63, 35} THEN [st EXCEPT !.end = i - 1]
         ELSE IF b = 58
              THEN IF st.colons >= 8 THEN [st EXCEPT !.ok = FALSE]
                   ELSE AuthorityScan(s, i + 1, [st EXCEPT !.colons = @ + 1])
         ELSE IF b = 91
              THEN IF st.pct \/ st.sb THEN [st EXCEPT !.ok = FALSE]
                   ELSE AuthorityScan(s, i + 1, [st EXCEPT !.sb = TRUE])
         ELSE IF b = 93
              THEN IF ~st.sb \/ st.eb THEN [st EXCEPT !.ok = FALSE]
                   ELSE AuthorityScan(s, i + 1,
                            [st EXCEPT !.eb = TRUE, !.colons = 0, !.pct = FALSE])
         ELSE IF b = 64
              THEN AuthorityScan(s, i + 1,
                       [st EXCEPT !.at = i, !.colons = 0, !.pct = FALSE])
         ELSE IF b = 37 THEN AuthorityScan(s, i + 1, [st EXCEPT !.pct = TRUE])
         ELSE IF ~IsUriChar(b) THEN [st EXCEPT !.ok = FALSE]
         ELSE AuthorityScan(s, i + 1, st)

\* Authority::parse: [ok, end], end the number of leading bytes of s that
\* are the authority.
AuthorityParse(s) ==
    LET st == AuthorityScan(s, 1, [ok |-> TRUE, colons |-> 0, sb |-> FALSE,
                                   eb |-> FALSE, pct |-> FALSE, at |-> 0,
                                   end |-> Len(s)])
    IN  IF ~st.ok THEN [ok |-> FALSE, end |-> 0]
        ELSE IF st.sb # st.eb THEN [ok |-> FALSE, end |-> 0]
        ELSE IF st.colons > 1 THEN [ok |-> FALSE, end |-> 0]
        ELSE IF st.end > 0 /\ st.at = st.end THEN [ok |-> FALSE, end |-> 0]
        ELSE IF st.pct THEN [ok |-> FALSE, end |-> 0]
        ELSE [ok |-> TRUE, end |-> st.end]

\* PathAndQuery::from_shared: [ok, data, query]; the fragment is cut off.
PathAndQueryParse(s) ==
    LET p == FirstFrom(s, 1, LAMBDA b : b \in {63, 35} \/ ~IsPathChar(b))
    IN  IF p > Len(s) THEN [ok |-> TRUE, data |-> s, query |-> 0]
        ELSE IF s[p] = 35 THEN [ok |-> TRUE, data |-> SubSeq(s, 1, p - 1), query |-> 0]
        ELSE IF s[p] # 63 THEN [ok |-> FALSE, data |-> <<>>, query |-> 0]
        ELSE LET q == FirstFrom(s, p + 1, LAMBDA b : b = 35 \/ ~IsQueryChar(b))
             IN  IF q > Len(s) THEN [ok |-> TRUE, data |-> s, query |-> p]
                 ELSE IF s[q] = 35
                      THEN [ok |-> TRUE, data |-> SubSeq(s, 1, q - 1), query |-> p]
                 ELSE [ok |-> FALSE, data |-> <<>>, query |-> 0]

\* parse_full: a text that does not start with "/".
ParseFull(s) ==
    LET sch  == SchemeParse(s)
        rest == IF sch.len = 0 THEN s ELSE SubSeq(s, sch.len + 4, Len(s))
        auth == AuthorityParse(rest)
        pq   == PathAndQueryParse(SubSeq(rest, auth.end + 1, Len(rest)))
    IN  IF ~sch.ok THEN UriErr("SchemeTooLong")
        ELSE IF ~auth.ok THEN UriErr("InvalidAuthority")
        ELSE IF sch.len = 0
             THEN IF auth.end # Len(rest) THEN UriErr("InvalidFormat")
                  ELSE UriOk([scheme |-> None, authority |-> rest,
                              data |-> <<>>, query |-> 0])
        ELSE IF auth.end = 0 THEN UriErr("InvalidFormat")
        ELSE IF ~pq.ok THEN UriErr("InvalidUriChar")
        ELSE UriOk([scheme |-> Some(sch.name), authority |-> SubSeq(rest, 1, auth.end),
                    data |-> pq.data, query |-> pq.query])

\* Uri::from_str (Uri::from_shared).
ParseUri(s) ==
    IF UriTooLong(s) THEN UriErr("TooLong")
    ELSE IF Len(s) = 0 THEN UriErr("Empty")
    ELSE IF s[1] = 47
         THEN LET pq == PathAndQueryParse(s)
              IN  IF pq.ok
                  THEN UriOk([scheme |-> None, authority |-> <<>>,
                              data |-> pq.data, query |-> pq.query])
                  ELSE UriErr("InvalidUriChar")
    ELSE IF Len(s) = 1 /\ s[1] = 42
         THEN UriOk([scheme |-> None, authority |-> <<>>, data |-> s, query |-> 0])
    ELSE ParseFull(s)

\* Uri::scheme_str.
SchemeStr(u) == u.scheme

\* Uri::authority, as text.
AuthorityStr(u) == IF u.authority = <<>> THEN None ELSE Some(u.authority)

\* Uri::path: "/" for an empty path of a Uri that has a scheme or any
\* path-and-query, "" for a Uri that is an authority alone.
UriPath(u) ==
    IF u.data = <<>> /\ ~IsSome(u.scheme) THEN <<>>
    ELSE LET p == IF u.query = 0 THEN u.data ELSE SubSeq(u.data, 1, u.query - 1)
         IN  IF p = <<>> THEN <<47>> ELSE p

\* Uri::query.
UriQuery(u) ==
    IF u.query = 0 THEN None ELSE Some(SubSeq(u.data, u.query + 1, Len(u.data)))

\* Display for Uri (Uri::to_string).
UriToString(u) ==
    (IF IsSome(u.scheme) THEN Unwrap(u.scheme) \o <<58, 47, 47>> ELSE <<>>)
    \o u.authority
    \o UriPath(u)
    \o (IF IsSome(UriQuery(u)) THEN <<63>> \o Unwrap(UriQuery(u)) ELSE <<>>)

---------------------------------------------------------------------------
(* percent_encoding: utf8_percent_encode(_, NON_ALPHANUMERIC),             *)
(* percent_decode_str(_).decode_utf8()                                     *)

\* The upper-case hexadecimal digit of a nibble, as a byte.
HexDigit(n) == IF n < 10 THEN 48 + n ELSE 55 + n

\* The value of a hexadecimal digit byte (either case), or -1.
HexValue(b) ==
    IF b \in 48..57 THEN b - 48
    ELSE IF b \in 65..70 THEN b - 55
    ELSE IF b \in 97..102 THEN b - 87
    ELSE -1

\* Mutant of EncodeByte: an encode set that leaves "%" and "&" as they are.
EncodeByte_KeepsReserved(b) ==
    IF IsAlnum(b) \/ b \in {37, 38} THEN <<b>>
    ELSE <<37, HexDigit(b \div 16), HexDigit(b % 16)>>

\* One byte under NON_ALPHANUMERIC: kept when ASCII alphanumeric, else %XX.
EncodeByte(b) ==
    IF IsAlnum(b) THEN <<b>> ELSE <<37, HexDigit(b \div 16), HexDigit(b % 16)>>

RECURSIVE PercentEncode(_)
\* utf8_percent_encode(s, NON_ALPHANUMERIC).to_string()
PercentEncode(s) ==
    IF s = <<>> THEN <<>> ELSE EncodeByte(Head(s)) \o PercentEncode(Tail(s))

RECURSIVE PercentDecode(_)
\* percent_decode_str(s): "%" followed by two hexadecimal digits becomes the
\* byte they name; every other byte, a stray "%" included, stays.
PercentDecode(s) ==
    IF s = <<>> THEN <<>>
    ELSE IF s[1] = 37 /\ Len(s) >= 3 /\ HexValue(s[2]) >= 0 /\ HexValue(s[3]) >= 0
         THEN <<HexValue(s[2]) * 16 + HexValue(s[3])>>
              \o PercentDecode(SubSeq(s, 4, Len(s)))
    ELSE <<s[1]>> \o PercentDecode(Tail(s))

IsCont(b) == b \in 128..191

RECURSIVE IsUtf8(_)
\* Whether the bytes are well-formed UTF-8 (what decode_utf8 accepts).
IsUtf8(s) ==
    IF s = <<>> THEN TRUE
    ELSE LET b == s[1] IN
         IF b < 128 THEN IsUtf8(Tail(s))
         ELSE IF b \in 194..223
              THEN Len(s) >= 2 /\ IsCont(s[2]) /\ IsUtf8(SubSeq(s, 3, Len(s)))
         ELSE IF b \in 224..239
              THEN /\ Len(s) >= 3
                   /\ IsCont(s[2]) /\ IsCont(s[3])
                   /\ (b = 224 => s[2] >= 160)
                   /\ (b = 237 => s[2] <= 159)
                   /\ IsUtf8(SubSeq(s, 4, Len(s)))
         ELSE IF b \in 240..244
              THEN /\ Len(s) >= 4
                   /\ IsCont(s[2]) /\ IsCont(s[3]) /\ IsCont(s[4])
                   /\ (b = 240 => s[2] >= 144)
                   /\ (b = 244 => s[2] <= 143)
                   /\ IsUtf8(SubSeq(s, 5, Len(s)))
         ELSE FALSE

\* percent_decode_str(s).decode_utf8().ok()
DecodeUtf8(s) == LET d == PercentDecode(s) IN IF IsUtf8(d) THEN Some(d) ELSE None

RECURSIVE Split(_, _)
\* str::split(sep): the pieces of s between the separator bytes, in order;
\* the empty text splits into one empty piece.
Split(s, sep) ==
    LET i == FirstFrom(s, 1, LAMBDA b : b = sep)
    IN  IF i > Len(s) THEN <<s>>
        ELSE <<SubSeq(s, 1, i - 1)>> \o Split(SubSeq(s, i + 1, Len(s)), sep)

\* Iterator::find(|p| p.starts_with(prefix)) followed by strip_prefix(prefix).
FindStripPrefix(params, prefix) ==
    LET i == FirstFrom(params, 1, LAMBDA p : StartsWith(p, prefix))
    IN  IF i > Len(params) THEN None
        ELSE Some(SubSeq(params[i], Len(prefix) + 1, Len(params[i])))

RECURSIVE TrimEndMatches(_, _)
\* str::trim_end_matches(c): s without every trailing occurrence of c.
TrimEndMatches(s, c) ==
    IF s # <<>> /\ s[Len(s)] = c THEN TrimEndMatches(SubSeq(s, 1, Len(s) - 1), c)
    ELSE s

---------------------------------------------------------------------------
(* construct_probe_url and BlackboxExporterBuilder::build                  *)

ProbeSegment == B(<<"/","p","r","o","b","e">>)

TargetParam == B(<<"t","a","r","g","e","t","=">>)

ModuleParam == B(<<"m","o","d","u","l","e","=">>)

\* Mutant of DefaultScheme: a base without a scheme is given https.
DefaultScheme_Https == B(<<"h","t","t","p","s">>)

DefaultScheme == B(<<"h","t","t","p">>)

\* Mutant of ProbePath: only one trailing slash is stripped.
ProbePath_StripOne(path) ==
    IF path = <<>> \/ path = <<47>> THEN ProbeSegment
    ELSE (IF path[Len(path)] = 47 THEN SubSeq(path, 1, Len(path) - 1) ELSE path)
         \o ProbeSegment

\* Mutant of ProbePath: /probe is appended to the base path as it is.
ProbePath_NoTrim(path) ==
    IF path = <<>> \/ path = <<47>> THEN ProbeSegment ELSE path \o ProbeSegment

\* The probe path: the base path without its trailing slashes, then /probe.
ProbePath(path) ==
    IF path = <<>> \/ path = <<47>> THEN ProbeSegment
    ELSE TrimEndMatches(path, 47) \o ProbeSegment

\* Mutant of ProbeQuery: the new parameters come before the base query.
ProbeQuery_Prepends(baseQuery, target, module) ==
    IF IsSome(baseQuery)
    THEN TargetParam \o PercentEncode(target)
         \o <<38>> \o ModuleParam \o PercentEncode(module) \o <<38>> \o Unwrap(baseQuery)
    ELSE TargetParam \o PercentEncode(target)
         \o <<38>> \o ModuleParam \o PercentEncode(module)

\* The query of the probe URL: the base query first, when there is one.
ProbeQuery(baseQuery, target, module) ==
    IF IsSome(baseQuery)
    THEN Unwrap(baseQuery) \o <<38>> \o TargetParam \o PercentEncode(target)
         \o <<38>> \o ModuleParam \o PercentEncode(module)
    ELSE TargetParam \o PercentEncode(target)
         \o <<38>> \o ModuleParam \o PercentEncode(module)

\* The text construct_probe_url assembles and parses.
ProbeUrlString(base_url, target, module) ==
    UnwrapOr(SchemeStr(base_url), DefaultScheme) \o <<58, 47, 47>>
    \o UnwrapOr(AuthorityStr(base_url), <<>>)
    \o ProbePath(UriPath(base_url))
    \o <<63>> \o ProbeQuery(UriQuery(base_url), target, module)

\* construct_probe_url(base_url, target, module): Result<Uri, InvalidUri>
construct_probe_url(base_url, target, module) ==
    ParseUri(ProbeUrlString(base_url, target, module))

\* Mutant of DecodeTarget: bytes that are not UTF-8 are kept, not dropped.
DecodeTarget_Lossy(url) ==
    LET q == UriQuery(url)
        v == IF IsSome(q) THEN FindStripPrefix(Split(Unwrap(q), 38), TargetParam)
             ELSE None
    IN  IF IsSome(v) THEN PercentDecode(Unwrap(v)) ELSE <<>>

\* The target BlackboxExporterBuilder::build reads from a probe URL: the
\* value of the first "target=" parameter, percent-decoded; "" without one.
DecodeTarget(url) ==
    LET q == UriQuery(url)
        v == IF IsSome(q) THEN FindStripPrefix(Split(Unwrap(q), 38), TargetParam)
             ELSE None
        d == IF IsSome(v) THEN DecodeUtf8(Unwrap(v)) ELSE None
    IN  UnwrapOr(d, <<>>)

\* OptionalLabels of a configuration without optional labels.
NoLabels ==
    [geohash |-> None, region |-> None, location |-> None, country |-> None,
     name |-> None, provider |-> None, custom |-> <<>>]

\* BlackboxExporterBuilder::build(&self, url): the per-request context.
BuilderBuild(builder, url) ==
    [target |-> DecodeTarget(url),
     module |-> builder.module,
     optional_labels |-> builder.optional_labels]

---------------------------------------------------------------------------
(* Metric tags and enrich_events.  The tags of a metric are a map from tag *)
(* names (strings) to tag values (bytes), one value per name, which is     *)
(* what the Prometheus text parser produces.  The ad-hoc labels            *)
(* (OptionalLabels::custom, a HashMap) are a sequence of <<key, value>>    *)
(* pairs with distinct keys: the order in which the map iterates.          *)

\* Metric::remove_tag(key): the tags without key.
RemoveTag(tags, key) == [k \in DOMAIN tags \ {key} |-> tags[k]]

\* The value Metric::remove_tag(key) returns.
TagValue(tags, key) == IF key \in DOMAIN tags THEN Some(tags[key]) ELSE None

\* Mutant of ReplaceTag: the other tags are lost.
ReplaceTag_DropsOthers(tags, key, value) == [k \in {key} |-> value]

\* Metric::replace_tag(key, value): key is set, the other tags stay.
ReplaceTag(tags, key, value) ==
    [k \in DOMAIN tags \cup {key} |-> IF k = key THEN value ELSE tags[k]]

\* Mutant of Exported: one name for every renamed tag.
Exported_Shared(key) == "exported"

\* format!("exported_{}", key)
Exported(key) == "exported_" \o key

\* Mutant of RenameExisting: the existing tag is removed and not kept.
RenameExisting_Drops(tags, key) == RemoveTag(tags, key)

\* Mutant of RenameExisting: exported_<key> is written without a conflict too.
RenameExisting_AlwaysExports(tags, key) ==
    ReplaceTag(RemoveTag(tags, key), Exported(key), UnwrapOr(TagValue(tags, key), <<>>))

\* Mutant of RenameExisting: an exported_<key> already there is not overwritten.
RenameExisting_KeepsOldExported(tags, key) ==
    LET existing == TagValue(tags, key)
    IN  IF IsSome(existing) /\ Exported(key) \notin DOMAIN tags
        THEN ReplaceTag(RemoveTag(tags, key), Exported(key), Unwrap(existing))
        ELSE RemoveTag(tags, key)

\* Lines 390-393, 398-401 and 442-444: a tag of the key that is already
\* there is removed and its value written to exported_<key>.
RenameExisting(tags, key) ==
    LET existing == TagValue(tags, key)
    IN  IF IsSome(existing)
        THEN ReplaceTag(RemoveTag(tags, key), Exported(key), Unwrap(existing))
        ELSE tags

\* Mutant of add_optional_label: the tag is removed before the empty value
\* is skipped.
add_optional_label_RemovesOnEmpty(tags, key, value) ==
    IF IsSome(value)
    THEN IF Unwrap(value) = <<>> THEN RemoveTag(tags, key)
         ELSE ReplaceTag(RenameExisting(tags, key), key, Unwrap(value))
    ELSE tags

\* Mutant of add_optional_label: the value is set without the rename.
add_optional_label_NoRename(tags, key, value) ==
    IF IsSome(value)
    THEN IF Unwrap(value) = <<>> THEN tags
         ELSE ReplaceTag(tags, key, Unwrap(value))
    ELSE tags

\* Mutant of add_optional_label: an empty value is set like any other.
add_optional_label_SetsEmpty(tags, key, value) ==
    IF IsSome(value)
    THEN ReplaceTag(RenameExisting(tags, key), key, Unwrap(value))
    ELSE tags

\* add_optional_label(metric, key, value): nothing for None and for "".
add_optional_label(tags, key, value) ==
    IF IsSome(value)
    THEN IF Unwrap(value) = <<>> THEN tags
         ELSE ReplaceTag(RenameExisting(tags, key), key, Unwrap(value))
    ELSE tags

\* The predefined labels, in the order enrich_events adds them.
PredefinedKeys == <<"geohash", "region", "location", "country", "name", "provider">>

\* The configured value of a predefined label.
PredefinedValue(labels, key) ==
    CASE key = "geohash"  -> labels.geohash
      [] key = "region"   -> labels.region
      [] key = "location" -> labels.location
      [] key = "country"  -> labels.country
      [] key = "name"     -> labels.name
      [] key = "provider" -> labels.provider

RECURSIVE AddPredefined_NoRename(_, _, _)
\* Mutant of AddPredefined: a tag of the same key is overwritten, not renamed.
AddPredefined_NoRename(tags, labels, i) ==
    IF i > Len(PredefinedKeys) THEN tags
    ELSE AddPredefined_NoRename(
             add_optional_label_NoRename(tags, PredefinedKeys[i],
                                         PredefinedValue(labels, PredefinedKeys[i])),
             labels, i + 1)

RECURSIVE AddPredefined(_, _, _)
\* Lines 405-411: the predefined labels from the i-th on.
AddPredefined(tags, labels, i) ==
    IF i > Len(PredefinedKeys) THEN tags
    ELSE AddPredefined(
             add_optional_label(tags, PredefinedKeys[i],
                                PredefinedValue(labels, PredefinedKeys[i])),
             labels, i + 1)

RECURSIVE AddCustom_KeepsExisting(_, _)
\* Mutant of AddCustom: a key the measurement already has is left alone.
AddCustom_KeepsExisting(tags, custom) ==
    IF custom = <<>> THEN tags
    ELSE AddCustom_KeepsExisting(
             IF Head(custom)[1] \in DOMAIN tags THEN tags
             ELSE add_optional_label(tags, Head(custom)[1], Some(Head(custom)[2])),
             Tail(custom))

RECURSIVE AddCustom_NoRename(_, _)
\* Mutant of AddCustom: a tag of the same key is overwritten, not renamed.
AddCustom_NoRename(tags, custom) ==
    IF custom = <<>> THEN tags
    ELSE AddCustom_NoRename(
             add_optional_label_NoRename(tags, Head(custom)[1], Some(Head(custom)[2])),
             Tail(custom))

RECURSIVE AddCustom(_, _)
\* Lines 413-417: the ad-hoc labels, in the map's iteration order.
AddCustom(tags, custom) ==
    IF custom = <<>> THEN tags
    ELSE AddCustom(add_optional_label(tags, Head(custom)[1], Some(Head(custom)[2])),
                   Tail(custom))

\* The target, module and predefined steps of the loop body, in the order
\* of lines 389-411.  The target and the module are set whatever their value;
\* a predefined label goes through add_optional_label.
BuiltinSteps(ctx) ==
    <<[key |-> "target", value |-> Some(ctx.target), always |-> TRUE],
      [key |-> "module", value |-> Some(ctx.module), always |-> TRUE]>>
    \o [i \in DOMAIN PredefinedKeys |->
          [key |-> PredefinedKeys[i],
           value |-> PredefinedValue(ctx.optional_labels, PredefinedKeys[i]),
           always |-> FALSE]]

\* The ad-hoc steps of lines 415-417, in the map's iteration order.
CustomSteps(ctx) ==
    [i \in DOMAIN ctx.optional_labels.custom |->
        [key |-> ctx.optional_labels.custom[i][1],
         value |-> Some(ctx.optional_labels.custom[i][2]),
         always |-> FALSE]]

\* One rename-then-set step on the tags of a metric.
ApplyStep(tags, step) ==
    IF step.always
    THEN ReplaceTag(RenameExisting(tags, step.key), step.key, Unwrap(step.value))
    ELSE add_optional_label(tags, step.key, step.value)

RECURSIVE ApplySteps(_, _)
\* The steps applied one after the other.
ApplySteps(tags, steps) ==
    IF steps = <<>> THEN tags
    ELSE ApplySteps(ApplyStep(tags, Head(steps)), Tail(steps))

\* Mutant of EnrichTags: the ad-hoc labels are applied before the predefined.
EnrichTags_CustomFirst(tags, ctx) ==
    LET t1 == ReplaceTag(RenameExisting(tags, "target"), "target", ctx.target)
        t2 == ReplaceTag(RenameExisting(t1, "module"), "module", ctx.module)
        t3 == AddCustom(t2, ctx.optional_labels.custom)
    IN  AddPredefined(t3, ctx.optional_labels, 1)

\* Mutant of EnrichTags: an empty target is skipped, as an empty label is.
EnrichTags_SkipsEmptyTarget(tags, ctx) ==
    LET t1 == add_optional_label(tags, "target", Some(ctx.target))
        t2 == ReplaceTag(RenameExisting(t1, "module"), "module", ctx.module)
        t3 == AddPredefined(t2, ctx.optional_labels, 1)
    IN  AddCustom(t3, ctx.optional_labels.custom)

\* The body of the loop of enrich_events, on the tags of one metric.
EnrichTags(tags, ctx) ==
    LET t1 == ReplaceTag(RenameExisting(tags, "target"), "target", ctx.target)
        t2 == ReplaceTag(RenameExisting(t1, "module"), "module", ctx.module)
        t3 == AddPredefined(t2, ctx.optional_labels, 1)
    IN  AddCustom(t3, ctx.optional_labels.custom)

\* Mutant of enrich_events: the tags of the event before are kept and merged
\* into the next event of the batch.
enrich_events_CarriesTags(batch, ctx) ==
    [i \in DOMAIN batch |->
        IF i = 1 THEN [batch[i] EXCEPT !.tags = EnrichTags(@, ctx)]
        ELSE [batch[i] EXCEPT !.tags =
                EnrichTags([k \in DOMAIN batch[i].tags \cup DOMAIN batch[i - 1].tags |->
                               IF k \in DOMAIN batch[i].tags THEN batch[i].tags[k]
                               ELSE batch[i - 1].tags[k]], ctx)]]

\* Mutant of enrich_events: only the first event of the batch is enriched.
enrich_events_FirstOnly(batch, ctx) ==
    [i \in DOMAIN batch |->
        IF i = 1 THEN [batch[i] EXCEPT !.tags = EnrichTags(@, ctx)] ELSE batch[i]]

\* enrich_events(&mut self, events): every event of the batch, in place.
enrich_events(batch, ctx) ==
    [i \in DOMAIN batch |-> [batch[i] EXCEPT !.tags = EnrichTags(@, ctx)]]

---------------------------------------------------------------------------
(* The source: BlackboxExporterConfig::build, and the generic HTTP poller  *)
(* (sources::util::http_client::call) that build hands the URLs and the    *)
(* builder to.  The poller calls BlackboxExporterBuilder::build for each   *)
(* request, on_response on a 200 response and enrich_events on the events  *)
(* on_response returned.                                                   *)

\* OptionalLabels::from_config(config)
from_config(config) ==
    [geohash |-> config.geohash, region |-> config.region,
     location |-> config.location, country |-> config.country,
     name |-> config.name, provider |-> config.provider,
     custom |-> UnwrapOr(config.labels, <<>>)]

\* Lines 203-209: the probe URL of each target, in the order of the targets.
ProbeUrls(config, base_url) ==
    [i \in DOMAIN config.targets |->
        construct_probe_url(base_url, config.targets[i], config.module)]

\* Mutant of on_response: a body that does not parse gives an empty batch.
on_response_EmptyOnError(body) ==
    IF body.parses THEN Some(body.events) ELSE Some(<<>>)

\* on_response(url, header, body): the events of a body that parses, None
\* for a body that does not.  The text parser is not part of this model: a
\* body is the result parser::parse_text has on it.
on_response(body) == IF body.parses THEN Some(body.events) ELSE None

\* The variables of the source while it is not running.
NotPolling ==
    /\ urls = <<>>
    /\ context_builder = [module |-> <<>>, optional_labels |-> NoLabels]
    /\ req = <<>>
    /\ ctxs = <<>>
    /\ pending = <<>>
    /\ cycles = <<>>
    /\ last = <<>>
    /\ out = {}

\* The source variables while only the URL builder or enrich_events runs.
SourceIdle ==
    /\ spc = "idle"
    /\ cfg = [url |-> <<>>, targets |-> <<>>, module |-> <<>>]
    /\ NotPolling

---------------------------------------------------------------------------
(* The inputs of the URL builder                                           *)

\* Bound: the number of "/"-separated segments of a base path.
MaxSegments == 3

\* Bound: the number of pieces a target is made of.
MaxPieces == 2

\* A path segment is empty (which gives doubled and trailing slashes) or a name.
PathSegments == {<<>>, B(<<"p","r","o","b","e">>)}

RECURSIVE JoinPath(_)
JoinPath(segs) == IF segs = <<>> THEN <<>> ELSE <<47>> \o Head(segs) \o JoinPath(Tail(segs))

BasePaths == {JoinPath(segs) : segs \in SeqsUpTo(PathSegments, MaxSegments)}

BaseSchemes ==
    {<<>>, B(<<"h","t","t","p",":","/","/">>), B(<<"h","t","t","p","s",":","/","/">>)}

BaseAuthorities == {<<>>, B(<<"h",":","9">>)}

BaseQueries ==
    {None, Some(<<>>), Some(B(<<"a","=","1">>)),
     Some(B(<<"m","o","d","u","l","e","=","c","&","t","a","r","g","e","t","=","b">>))}

BaseTexts ==
    {s \o a \o p \o (IF IsSome(q) THEN <<63>> \o Unwrap(q) ELSE <<>>) :
        s \in BaseSchemes, a \in BaseAuthorities, p \in BasePaths, q \in BaseQueries}

\* The base endpoints: the texts that `self.url.parse::<Uri>()` accepts.
BaseUris == {ParseUri(t).uri : t \in {x \in BaseTexts : ParseUri(x).ok}}

\* The pieces of a target: a reserved character, a text that looks like a
\* percent escape (with alphanumerics), a space, and a non-ASCII character
\* (two bytes of UTF-8).
TargetPieces == {B(<<"&">>), B(<<"%","4","1">>), B(<<" ">>), <<195, 169>>}

Targets == {Concat(ps) : ps \in SeqsUpTo(TargetPieces, MaxPieces)}

Modules == {<<>>, B(<<"m","=","1">>)}

---------------------------------------------------------------------------
(* The URL builder on its own: construct_probe_url on every input, then    *)
(* BlackboxExporterBuilder::build on the URL it returned                   *)

\* The enrichment variables while only the URL builder runs.
EnrichIdle ==
    /\ epc = "idle"
    /\ ectx = [target |-> <<>>, module |-> <<>>, optional_labels |-> NoLabels]
    /\ ebefore = <<>>
    /\ events = <<>>

UrlInit ==
    /\ upc = "input"
    /\ ubase \in BaseUris
    /\ utarget \in Targets
    /\ umodule \in Modules
    /\ uresult = UriErr("NotBuilt")
    /\ uctx = [target |-> <<>>, module |-> <<>>, optional_labels |-> NoLabels]
    /\ EnrichIdle
    /\ SourceIdle

\* construct_probe_url(&base_url, target, &self.module)
UrlConstruct ==
    /\ upc = "input"
    /\ uresult' = construct_probe_url(ubase, utarget, umodule)
    /\ upc' = "built"
    /\ UNCHANGED <<ubase, utarget, umodule, uctx, evars, svars>>

\* context_builder.build(&url) on the URL construct_probe_url returned
UrlBuildContext ==
    /\ upc = "built"
    /\ uresult.ok
    /\ uctx' = BuilderBuild([module |-> umodule, optional_labels |-> NoLabels], uresult.uri)
    /\ upc' = "context"
    /\ UNCHANGED <<ubase, utarget, umodule, uresult, evars, svars>>

UrlNext == UrlConstruct \/ UrlBuildContext

SpecUrl == UrlInit /\ [][UrlNext]_vars

---------------------------------------------------------------------------
(* BlackboxExporterBuilder::build on its own: on URLs of every shape, not  *)
(* only on the URLs construct_probe_url builds                             *)

\* Bound: the number of parameters of a query.
MaxParams == 2

\* The values of a target parameter: empty, plain, an escaped "&", an
\* escaped two-byte character, escapes that are not UTF-8 (a lone byte 255, a
\* lead byte without its continuation) and broken escapes, which stay as
\* they are.
DecodeValues ==
    {<<>>, B(<<"b">>), B(<<"%","2","6">>), B(<<"%","C","3","%","A","9">>),
     B(<<"%","F","F">>), B(<<"%","C","3">>), B(<<"%","4">>), B(<<"%","z","z">>)}

\* The parameters of a query: target parameters and others.
DecodeParams ==
    {TargetParam \o v : v \in DecodeValues}
    \cup {B(<<"a","=","1">>), B(<<"m","o","d","u","l","e","=","m">>),
          B(<<"x","t","a","r","g","e","t","=","z">>)}

RECURSIVE JoinParams(_)
\* The parameters joined by "&".
JoinParams(ps) ==
    IF ps = <<>> THEN <<>>
    ELSE IF Len(ps) = 1 THEN ps[1]
    ELSE ps[1] \o <<38>> \o JoinParams(Tail(ps))

\* No query, and the queries of at most MaxParams parameters.
DecodeQueries ==
    {None} \cup {Some(JoinParams(ps)) : ps \in SeqsUpTo(DecodeParams, MaxParams)}

\* The URLs handed to the builder.
DecodeUris ==
    {ParseUri(t).uri :
        t \in {t \in {B(<<"h","t","t","p",":","/","/","h","/","p","r","o","b","e">>)
                        \o (IF IsSome(q) THEN <<63>> \o Unwrap(q) ELSE <<>>) :
                      q \in DecodeQueries} : ParseUri(t).ok}}

DecodeInit ==
    /\ upc = "built"
    /\ ubase = [scheme |-> None, authority |-> <<>>, data |-> <<>>, query |-> 0]
    /\ utarget = <<>>
    /\ umodule \in Modules
    /\ uresult \in {UriOk(u) : u \in DecodeUris}
    /\ uctx = [target |-> <<>>, module |-> <<>>, optional_labels |-> NoLabels]
    /\ EnrichIdle
    /\ SourceIdle

DecodeNext == UrlBuildContext

SpecDecode == DecodeInit /\ [][DecodeNext]_vars

---------------------------------------------------------------------------
(* The inputs of enrich_events                                             *)

\* Bound: the number of tags a measurement carries before enrichment.
MaxTags == 2

\* Bound: the number of ad-hoc labels.
MaxCustom == 2

\* The tag names a measurement may carry before enrichment.
TagKeys ==
    {"target", "exported_target", "module", "region", "exported_region", "instance"}

\* The tag values a measurement may carry before enrichment.
TagValues == {B(<<"x">>), B(<<"y">>)}

\* The tag maps of at most MaxTags tags.
TagMaps ==
    UNION {[K -> TagValues] : K \in {S \in SUBSET TagKeys : Cardinality(S) <= MaxTags}}

\* The configured value of each predefined label, when it has one.
PredefinedSample ==
    [geohash |-> B(<<"g">>), region |-> B(<<"x">>), location |-> B(<<"l">>),
     country |-> B(<<"c">>), name |-> B(<<"n">>), provider |-> B(<<"p">>)]

\* NoLabels with one predefined label configured.
WithLabel(key, value) ==
    [k \in DOMAIN NoLabels |-> IF k = key THEN value ELSE NoLabels[k]]

\* The predefined labels: none configured, one configured (to a value or to
\* the empty string), all configured.
PredefinedConfigs ==
    {NoLabels}
    \cup {WithLabel(PredefinedKeys[i], Some(PredefinedSample[PredefinedKeys[i]])) :
            i \in DOMAIN PredefinedKeys}
    \cup {WithLabel(PredefinedKeys[i], Some(<<>>)) : i \in DOMAIN PredefinedKeys}
    \cup {[k \in DOMAIN NoLabels |->
            IF k = "custom" THEN <<>> ELSE Some(PredefinedSample[k])]}

\* The ad-hoc labels a configuration may hold: keys that collide with
\* target, module, a predefined key and an exported_ key, a key that
\* collides with nothing, and an empty value.
CustomPairs ==
    {<<"target", B(<<"a">>)>>, <<"exported_target", B(<<"b">>)>>,
     <<"module", B(<<"a">>)>>, <<"region", B(<<"a">>)>>,
     <<"exported_region", B(<<"b">>)>>,
     <<"env", B(<<"a">>)>>, <<"env", <<>>>>}

\* The ad-hoc maps: at most MaxCustom pairs with distinct keys, in any order.
CustomMaps ==
    {c \in SeqsUpTo(CustomPairs, MaxCustom) :
        \A i, j \in DOMAIN c : i # j => c[i][1] # c[j][1]}

\* The label sets: every predefined configuration without ad-hoc labels, and
\* every ad-hoc map with the region label absent, empty or configured.
LabelSets ==
    PredefinedConfigs
    \cup {[WithLabel("region", r) EXCEPT !.custom = c] :
            r \in {None, Some(<<>>), Some(PredefinedSample.region)}, c \in CustomMaps}

\* The contexts: target "" is what build gives a URL it cannot decode.
Contexts ==
    {[target |-> t, module |-> B(<<"m">>), optional_labels |-> l] :
        t \in {<<>>, B(<<"t">>)}, l \in LabelSets}

\* A measurement as parse_text yields it.
Measurement(name, value, tags) ==
    [name |-> name, kind |-> "absolute", value |-> value, tags |-> tags]

\* The batches: one measurement with any tags, alone or (when it has fewer
\* than MaxTags tags) followed by a second measurement that has a target tag
\* of its own.
Batches ==
    {<<Measurement("probe_success", 1, t)>> : t \in TagMaps}
    \cup {<<Measurement("probe_success", 1, t),
            Measurement("probe_duration_seconds", 0,
                        [k \in {"target", "instance"} |-> B(<<"y">>)])>> :
            t \in {m \in TagMaps : Cardinality(DOMAIN m) < MaxTags}}

---------------------------------------------------------------------------
(* enrich_events on its own: one call on every batch and context           *)

\* The URL builder variables while only enrich_events runs.
UrlIdle ==
    /\ upc = "idle"
    /\ ubase = [scheme |-> None, authority |-> <<>>, data |-> <<>>, query |-> 0]
    /\ utarget = <<>>
    /\ umodule = <<>>
    /\ uresult = UriErr("NotBuilt")
    /\ uctx = [target |-> <<>>, module |-> <<>>, optional_labels |-> NoLabels]

EnrichInit ==
    /\ epc = "input"
    /\ ectx \in Contexts
    /\ ebefore \in Batches
    /\ events = ebefore
    /\ UrlIdle
    /\ SourceIdle

\* context.enrich_events(&mut events)
EnrichEvents ==
    /\ epc = "input"
    /\ events' = enrich_events(events, ectx)
    /\ epc' = "done"
    /\ UNCHANGED <<ectx, ebefore, uvars, svars>>

EnrichNext == EnrichEvents

SpecEnrich == EnrichInit /\ [][EnrichNext]_vars

---------------------------------------------------------------------------
(* The source as a whole: build, then the poller's scrapes                 *)

\* Bound: the number of configured targets.
MaxTargets == 2

\* Bound: the number of scrapes of one URL.
MaxCycles == 1

\* The configured base endpoints: with and without path and query; one (a
\* host and a path without a scheme) is no Uri, one (a path alone) is a Uri
\* without an authority.
SourceUrls ==
    {B(<<"h","t","t","p",":","/","/","h",":","9">>),
     B(<<"h","t","t","p","s",":","/","/","h","/","p","r","o","b","e","/","?","t","a","r","g","e","t","=","b">>),
     B(<<"h",":","9","/","p","r","o","b","e">>),
     B(<<"/","p","r","o","b","e">>)}

SourceTargets == {B(<<"b">>), B(<<"&">>)}

\* The optional labels of a configuration: none, or a region and two ad-hoc
\* labels, one under the key region.
SourceLabels ==
    {[geohash |-> None, region |-> None, location |-> None, country |-> None,
      name |-> None, provider |-> None, labels |-> None],
     [geohash |-> None, region |-> Some(B(<<"r">>)), location |-> None,
      country |-> None, name |-> None, provider |-> None,
      labels |-> Some(<<<<"env", B(<<"a">>)>>, <<"region", B(<<"a">>)>>>>)]}

\* The configurations.  tls is whether TlsSettings::from_options accepts the
\* TLS options.
Configs ==
    {[url |-> u, targets |-> ts, module |-> B(<<"m">>), tls |-> tls,
      geohash |-> l.geohash, region |-> l.region, location |-> l.location,
      country |-> l.country, name |-> l.name, provider |-> l.provider,
      labels |-> l.labels] :
        u \in SourceUrls, ts \in SeqsUpTo(SourceTargets, MaxTargets),
        tls \in BOOLEAN, l \in SourceLabels}

\* What parse_text makes of a response body: a parse error, or events.
Bodies ==
    {[parses |-> FALSE, events |-> <<>>],
     [parses |-> TRUE,
      events |-> <<Measurement("probe_success", 1,
                               [k \in {"target", "instance"} |-> B(<<"x">>)])>>]}

SourceInit ==
    /\ spc = "configured"
    /\ cfg \in Configs
    /\ NotPolling
    /\ UrlIdle
    /\ EnrichIdle

\* SourceConfig::build fails: the base URL is no Uri, a probe URL cannot be
\* constructed, or the TLS options are refused.
BuildFails ==
    /\ spc = "configured"
    /\ LET base == ParseUri(cfg.url) IN
         \/ ~base.ok
         \/ base.ok /\ \E i \in DOMAIN cfg.targets : ~ProbeUrls(cfg, base.uri)[i].ok
         \/ ~cfg.tls
    /\ spc' = "failed"
    /\ UNCHANGED <<cfg, urls, context_builder, req, ctxs, pending, cycles, last, out, uvars, evars>>

\* Mutant of BuildSucceeds: a target whose URL cannot be constructed is left
\* out and the poller is started with the URLs of the others.
BuildSucceeds_SkipsBadUrls ==
    /\ spc = "configured"
    /\ ParseUri(cfg.url).ok
    /\ cfg.tls
    /\ LET all == ProbeUrls(cfg, ParseUri(cfg.url).uri)
           good == SelectSeq(all, LAMBDA r : r.ok)
       IN  /\ urls' = [i \in DOMAIN good |-> good[i].uri]
           /\ req' = [i \in DOMAIN good |-> "idle"]
           /\ ctxs' = [i \in DOMAIN good |->
                          [target |-> <<>>, module |-> <<>>, optional_labels |-> NoLabels]]
           /\ pending' = [i \in DOMAIN good |-> <<>>]
           /\ cycles' = [i \in DOMAIN good |-> 0]
           /\ last' = [i \in DOMAIN good |-> "none"]
    /\ context_builder' = [module |-> cfg.module, optional_labels |-> from_config(cfg)]
    /\ spc' = "running"
    /\ UNCHANGED <<cfg, out, uvars, evars>>

\* SourceConfig::build succeeds: the poller is started with the probe URLs.
BuildSucceeds ==
    /\ spc = "configured"
    /\ ParseUri(cfg.url).ok
    /\ \A i \in DOMAIN cfg.targets : ProbeUrls(cfg, ParseUri(cfg.url).uri)[i].ok
    /\ cfg.tls
    /\ urls' = [i \in DOMAIN cfg.targets |-> ProbeUrls(cfg, ParseUri(cfg.url).uri)[i].uri]
    /\ context_builder' = [module |-> cfg.module, optional_labels |-> from_config(cfg)]
    /\ req' = [i \in DOMAIN cfg.targets |-> "idle"]
    /\ ctxs' = [i \in DOMAIN cfg.targets |->
                    [target |-> <<>>, module |-> <<>>, optional_labels |-> NoLabels]]
    /\ pending' = [i \in DOMAIN cfg.targets |-> <<>>]
    /\ cycles' = [i \in DOMAIN cfg.targets |-> 0]
    /\ last' = [i \in DOMAIN cfg.targets |-> "none"]
    /\ spc' = "running"
    /\ UNCHANGED <<cfg, out, uvars, evars>>

\* The poller starts a scrape of URL i: the context of the request is built.
StartScrape(i) ==
    /\ spc = "running"
    /\ req[i] = "idle"
    /\ cycles[i] < MaxCycles
    /\ ctxs' = [ctxs EXCEPT ![i] = BuilderBuild(context_builder, urls[i])]
    /\ req' = [req EXCEPT ![i] = "sent"]
    /\ cycles' = [cycles EXCEPT ![i] = @ + 1]
    /\ UNCHANGED <<cfg, spc, urls, context_builder, pending, last, out, uvars, evars>>

\* The scrape of URL i ends without a 200 response: a transport error, a
\* timeout or another status.  Nothing is parsed.
ScrapeFails(i) ==
    /\ spc = "running"
    /\ req[i] = "sent"
    /\ req' = [req EXCEPT ![i] = "idle"]
    /\ last' = [last EXCEPT ![i] = "error"]
    /\ UNCHANGED <<cfg, spc, urls, context_builder, ctxs, pending, cycles, out, uvars, evars>>

\* Mutant of ScrapeResponds: the events are enriched with the context of the
\* first URL, as if one context were shared by all the URLs.
ScrapeResponds_SharedContext(i) ==
    /\ spc = "running"
    /\ req[i] = "sent"
    /\ \E body \in Bodies :
         LET r == on_response(body) IN
         /\ last' = [last EXCEPT ![i] = IF body.parses THEN "events" ELSE "unparsed"]
         /\ IF IsSome(r)
            THEN /\ pending' = [pending EXCEPT ![i] = enrich_events(Unwrap(r), ctxs[1])]
                 /\ req' = [req EXCEPT ![i] = "pending"]
            ELSE /\ req' = [req EXCEPT ![i] = "idle"]
                 /\ UNCHANGED pending
    /\ UNCHANGED <<cfg, spc, urls, context_builder, ctxs, cycles, out, uvars, evars>>

\* Mutant of ScrapeResponds: the events go downstream as parsed, enrich_events
\* is not called.
ScrapeResponds_NoEnrich(i) ==
    /\ spc = "running"
    /\ req[i] = "sent"
    /\ \E body \in Bodies :
         LET r == on_response(body) IN
         /\ last' = [last EXCEPT ![i] = IF body.parses THEN "events" ELSE "unparsed"]
         /\ IF IsSome(r)
            THEN /\ pending' = [pending EXCEPT ![i] = Unwrap(r)]
                 /\ req' = [req EXCEPT ![i] = "pending"]
            ELSE /\ req' = [req EXCEPT ![i] = "idle"]
                 /\ UNCHANGED pending
    /\ UNCHANGED <<cfg, spc, urls, context_builder, ctxs, cycles, out, uvars, evars>>

\* A 200 response for URL i: on_response, and enrich_events on its events.
ScrapeResponds(i) ==
    /\ spc = "running"
    /\ req[i] = "sent"
    /\ \E body \in Bodies :
         LET r == on_response(body) IN
         /\ last' = [last EXCEPT ![i] = IF body.parses THEN "events" ELSE "unparsed"]
         /\ IF IsSome(r)
            THEN /\ pending' = [pending EXCEPT ![i] = enrich_events(Unwrap(r), ctxs[i])]
                 /\ req' = [req EXCEPT ![i] = "pending"]
            ELSE /\ req' = [req EXCEPT ![i] = "idle"]
                 /\ UNCHANGED pending
    /\ UNCHANGED <<cfg, spc, urls, context_builder, ctxs, cycles, out, uvars, evars>>

\* The enriched batch of URL i is handed downstream.
Emit(i) ==
    /\ spc = "running"
    /\ req[i] = "pending"
    /\ out' = out \cup {[url |-> i, cycle |-> cycles[i], events |-> pending[i]]}
    /\ pending' = [pending EXCEPT ![i] = <<>>]
    /\ req' = [req EXCEPT ![i] = "idle"]
    /\ UNCHANGED <<cfg, spc, urls, context_builder, ctxs, cycles, last, uvars, evars>>

\* The shutdown signal ends the poller's stream: the scrapes in progress are
\* cancelled and the batches not yet handed downstream are dropped.
Shutdown ==
    /\ spc = "running"
    /\ spc' = "stopped"
    /\ last' = [i \in DOMAIN urls |-> IF req[i] = "sent" THEN "cancelled" ELSE last[i]]
    /\ req' = [i \in DOMAIN urls |-> "idle"]
    /\ pending' = [i \in DOMAIN urls |-> <<>>]
    /\ UNCHANGED <<cfg, urls, context_builder, ctxs, cycles, out, uvars, evars>>

Next ==
    \/ BuildFails
    \/ BuildSucceeds
    \/ \E i \in DOMAIN urls : StartScrape(i)
    \/ \E i \in DOMAIN urls : ScrapeFails(i)
    \/ \E i \in DOMAIN urls : ScrapeResponds(i)
    \/ \E i \in DOMAIN urls : Emit(i)
    \/ Shutdown

Spec == SourceInit /\ [][Next]_vars

---------------------------------------------------------------------------
(* Claims about the URL builder (checked under SpecUrl)                    *)

\* construct_probe_url has returned Ok.
UrlBuilt == upc # "input" /\ uresult.ok

DoubleSlashProbe == <<47>> \o ProbeSegment

\* s with one trailing slash removed, when it has one.
StripOneSlash(s) ==
    IF s # <<>> /\ s[Len(s)] = 47 THEN SubSeq(s, 1, Len(s) - 1) ELSE s

\* Whether stem is P without its trailing slashes: a prefix of P that does
\* not end in "/", followed in P by slashes only.
IsWithoutTrailingSlashes(stem, P) ==
    /\ StartsWith(P, stem)
    /\ (stem = <<>> \/ stem[Len(stem)] # 47)
    /\ \A i \in (Len(stem) + 1)..Len(P) : P[i] = 47

C2_NoDoubleSlashProbeAnywhere ==
    UrlBuilt => ~Contains(UriToString(uresult.uri), DoubleSlashProbe)

\* C2 (amended): the path of the built URL never ends in "//probe": the
\* probe segment the builder appends is never preceded by a double slash.
C2_NoDoubleSlashBeforeAppendedProbe ==
    UrlBuilt => ~EndsWith(UriPath(uresult.uri), DoubleSlashProbe)

\* A base path with a trailing slash after a named segment has been built.
C2_Witness ==
    /\ UrlBuilt
    /\ EndsWith(UriPath(ubase), <<101, 47>>)

\* The query C3 names: Q, "&" when the base has a query, then the two parameters.
ExpectedQuery(Q, target, module) ==
    (IF IsSome(Q) THEN Unwrap(Q) \o <<38>> ELSE <<>>)
    \o TargetParam \o PercentEncode(target) \o <<38>> \o ModuleParam \o PercentEncode(module)

DecodedParam(prefix) ==
    LET v == FindStripPrefix(Split(Unwrap(UriQuery(uresult.uri)), 38), prefix)
    IN  IF IsSome(v) THEN DecodeUtf8(Unwrap(v)) ELSE None

\* Whether the base query has a parameter that starts with prefix.
BaseHasParam(prefix) ==
    /\ IsSome(UriQuery(ubase))
    /\ \E i \in DOMAIN Split(Unwrap(UriQuery(ubase)), 38) :
          StartsWith(Split(Unwrap(UriQuery(ubase)), 38)[i], prefix)

\* C4 as stated: for every base endpoint, the first "target=" ("module=")
\* parameter of the built query percent-decodes to the original target (module).
C4_DecodesForEveryBase ==
    UrlBuilt =>
        /\ DecodedParam(TargetParam) = Some(utarget)
        /\ DecodedParam(ModuleParam) = Some(umodule)

\* C4 (amended): for every base endpoint whose query has no parameter that
\* starts with "target=" (respectively "module="), the first such parameter of
\* the built query percent-decodes to the original target (respectively module).
C4_DecodesWithoutBaseParam ==
    UrlBuilt =>
        /\ ~BaseHasParam(TargetParam) => DecodedParam(TargetParam) = Some(utarget)
        /\ ~BaseHasParam(ModuleParam) => DecodedParam(ModuleParam) = Some(umodule)

\* A target with a reserved character, a percent sign and a non-ASCII character
\* has been built onto a base with a query.
C4_Witness ==
    /\ UrlBuilt
    /\ IsSome(UriQuery(ubase)) /\ ~BaseHasParam(TargetParam)
    /\ 38 \in Range(utarget) /\ 195 \in Range(utarget)
    /\ 61 \in Range(umodule)

\* C5: the context built from the built URL has the original target and the
\* configured module.
C5_TargetRoundTrips ==
    upc = "context" => uctx.target = utarget /\ uctx.module = umodule

QueryParams(q) == IF IsSome(q) THEN Split(Unwrap(q), 38) ELSE <<>>

\* The value of the parameter p when p starts with prefix.
ParamValue(p, prefix) ==
    IF StartsWith(p, prefix) THEN Some(SubSeq(p, Len(prefix) + 1, Len(p))) ELSE None

\* The values of the two parameters that end the built query.
BuiltTargetValue ==
    LET ps == QueryParams(UriQuery(uresult.uri))
    IN  IF Len(ps) >= 2 THEN ParamValue(ps[Len(ps) - 1], TargetParam) ELSE None

BuiltModuleValue ==
    LET ps == QueryParams(UriQuery(uresult.uri))
    IN  IF Len(ps) >= 2 THEN ParamValue(ps[Len(ps)], ModuleParam) ELSE None

RECURSIVE IsEscapeOf(_, _)
\* v is s with every alphanumeric byte as it is and every other byte as "%"
\* and the two hexadecimal digits of the byte.
IsEscapeOf(v, s) ==
    IF s = <<>> THEN v = <<>>
    ELSE IF IsAlnum(Head(s))
         THEN v # <<>> /\ Head(v) = Head(s) /\ IsEscapeOf(Tail(v), Tail(s))
         ELSE /\ Len(v) >= 3
              /\ v[1] = 37
              /\ HexValue(v[2]) >= 0 /\ HexValue(v[3]) >= 0
              /\ 16 * HexValue(v[2]) + HexValue(v[3]) = Head(s)
              /\ IsEscapeOf(SubSeq(v, 4, Len(v)), Tail(s))

\* "&", "=", "?", "#", "/" and the space.
ReservedBytes == {38, 61, 63, 35, 47, 32}

\* C26: in the built URL the target and module values have every
\* non-alphanumeric byte as a %XX escape and every alphanumeric byte
\* unchanged, hold no raw "&", "=", "?", "#", "/" or space, and the built
\* query has exactly two more "&"-separated parameters than the base query.
C26_AlphanumericPreservingEncoding ==
    UrlBuilt =>
        /\ IsSome(BuiltTargetValue) /\ IsSome(BuiltModuleValue)
        /\ IsEscapeOf(Unwrap(BuiltTargetValue), utarget)
        /\ IsEscapeOf(Unwrap(BuiltModuleValue), umodule)
        /\ Range(Unwrap(BuiltTargetValue)) \cap ReservedBytes = {}
        /\ Range(Unwrap(BuiltModuleValue)) \cap ReservedBytes = {}
        /\ Len(QueryParams(UriQuery(uresult.uri)))
             = Len(QueryParams(UriQuery(ubase))) + 2

\* A target with "&" and a space and a module with "=" have been built onto
\* a base whose query has two parameters.
C26_Witness ==
    /\ UrlBuilt
    /\ 38 \in Range(utarget) /\ 32 \in Range(utarget)
    /\ 61 \in Range(umodule)
    /\ Len(QueryParams(UriQuery(ubase))) = 2
    /\ Len(QueryParams(UriQuery(uresult.uri))) = 4

---------------------------------------------------------------------------
(* Claims about BlackboxExporterBuilder::build (checked under SpecDecode)  *)

\* BlackboxExporterBuilder::build has returned a context.
Decoded == upc = "context"

\* The parameters of the URL handed to the builder; none without a query.
UrlParams ==
    IF IsSome(UriQuery(uresult.uri)) THEN Split(Unwrap(UriQuery(uresult.uri)), 38)
    ELSE <<>>

\* The target parameters of the URL, in order.
TargetParams == SelectSeq(UrlParams, LAMBDA p : StartsWith(p, TargetParam))

\* Whether the value of the first target parameter does not percent-decode
\* to UTF-8.
FirstTargetUndecodable ==
    /\ TargetParams # <<>>
    /\ ~IsUtf8(PercentDecode(SubSeq(TargetParams[1], Len(TargetParam) + 1,
                                    Len(TargetParams[1]))))

\* C24: for a URL without a query, without a parameter starting with
\* target=, or whose (first) target value does not percent-decode to UTF-8,
\* the context has the empty target; in every case it has the configured
\* module and labels.
C24_UndecodableTargetIsEmpty ==
    Decoded =>
        /\ uctx.module = umodule
        /\ uctx.optional_labels = NoLabels
        /\ (\/ ~IsSome(UriQuery(uresult.uri))
            \/ TargetParams = <<>>
            \/ FirstTargetUndecodable) => uctx.target = <<>>

\* A context has been built from a URL whose first parameter is a target
\* that does not decode to UTF-8 and whose second parameter is another
\* target.
C24_Witness ==
    /\ Decoded
    /\ Len(TargetParams) = 2
    /\ FirstTargetUndecodable
    /\ uctx.target = <<>>
    /\ uctx.module # <<>>

---------------------------------------------------------------------------
(* Claims about the source (checked under Spec)                            *)

\* build has returned Ok and the poller holds the probe URLs.
Running == spc = "running"

\* The probe URL the builder gives for the i-th configured target.
UrlOfTarget(i) ==
    construct_probe_url(ParseUri(cfg.url).uri, cfg.targets[i], cfg.module)

\* There is one URL per target, the i-th built from the i-th target.
UrlPerTarget ==
    /\ Len(urls) = Len(cfg.targets)
    /\ \A i \in DOMAIN urls : UrlOfTarget(i).ok /\ urls[i] = UrlOfTarget(i).uri

\* The URLs are pairwise distinct.
UrlsDistinct == \A i, j \in DOMAIN urls : i # j => urls[i] # urls[j]

\* The target parameter of each URL decodes to the target it was built from.
UrlsDecodable == \A i \in DOMAIN urls : DecodeTarget(urls[i]) = cfg.targets[i]

\* C6: once the source is built, there is exactly one probe URL per
\* configured target, the i-th built from the i-th target, the URLs are
\* pairwise distinct, and each URL's target parameter decodes back to the
\* target it was built from.
C6_OneDistinctDecodableUrlPerTarget ==
    Running => UrlPerTarget /\ UrlsDistinct /\ UrlsDecodable

\* The part of C6 that concerns decoding alone.
C6_EachUrlDecodable == Running => UrlsDecodable

\* The part of C6 that concerns distinctness alone.
C6_UrlsDistinct == Running => UrlsDistinct

\* The part of C6 that concerns the number and the order of the URLs.
C6_UrlPerTarget == Running => UrlPerTarget

\* The part of C6 that concerns the lifetime of the list: no step of the
\* running source changes the URLs.
C6_UrlsStable == [][Running => urls' = urls]_vars

\* Whether the base URL is no Uri or the probe URL of some target cannot be
\* constructed.
UrlFailure ==
    \/ ~ParseUri(cfg.url).ok
    \/ \E i \in DOMAIN cfg.targets : ~UrlOfTarget(i).ok

\* C18: when the base URL does not parse or construct_probe_url fails for a
\* target, build does not start the poller: the source is never running and
\* holds no URL, no request is made and nothing is handed downstream.
C18_UrlFailureIsFatal ==
    (spc \in {"configured", "failed", "running"} /\ UrlFailure) =>
        /\ spc \in {"configured", "failed"}
        /\ NotPolling

\* build has returned an error for a base that is a Uri without an authority,
\* with two targets and acceptable TLS options.
C18_Witness ==
    /\ spc = "failed"
    /\ ParseUri(cfg.url).ok
    /\ Len(cfg.targets) = 2
    /\ cfg.tls
    /\ UrlFailure

\* Whether the latest scrape of URL i has failed: a transport error, a
\* status other than 200, or a body that does not parse.
ScrapeFailed(i) == last[i] \in {"error", "unparsed"}

\* Whether a batch of the current scrape of URL i has been handed downstream.
EmittedThisCycle(i) == \E e \in out : e.url = i /\ e.cycle = cycles[i]

\* A failed scrape of URL i has produced nothing: the scrape is over, no
\* batch of it is pending or handed downstream, and the source is running.
FailureYieldsNothing ==
    Running =>
        \A i \in DOMAIN urls :
            (ScrapeFailed(i) /\ req[i] # "sent") =>
                /\ req[i] = "idle"
                /\ pending[i] = <<>>
                /\ ~EmittedThisCycle(i)

\* The step in which the scrape of URL i fails touches nothing of the other
\* URLs and nothing handed downstream, and the source goes on running.
FailureIsIsolated ==
    \A i \in DOMAIN urls :
        (Running /\ req[i] = "sent" /\ req'[i] = "idle" /\ last'[i] \in {"error", "unparsed"}) =>
            /\ spc' = "running"
            /\ out' = out
            /\ \A j \in DOMAIN urls \ {i} :
                   /\ req'[j] = req[j]
                   /\ ctxs'[j] = ctxs[j]
                   /\ pending'[j] = pending[j]
                   /\ cycles'[j] = cycles[j]

\* C19: a scrape that fails (HTTP error, or a body that does not parse)
\* yields no measurements and nothing of it is handed downstream, the
\* source goes on running, and the scrapes of the other URLs are untouched.
C19_FailureIsolated == [](FailureYieldsNothing) /\ [][FailureIsIsolated]_vars

\* The scrape of the first URL has failed on a body that does not parse
\* while the batch of the second URL, scraped in the same cycle, has been
\* enriched and handed downstream.
C19_Witness ==
    /\ Running
    /\ Len(urls) = 2
    /\ last[1] = "unparsed" /\ req[1] = "idle" /\ cycles[1] = 1
    /\ cycles[2] = 1 /\ EmittedThisCycle(2)
    /\ \A e \in out : e.url = 2 /\ e.events # <<>>

\* C20: every measurement handed downstream has a target tag equal to the
\* configured target of the URL that was scraped and a module tag equal to
\* the configured module.
C20_EmittedTargetAndModule ==
    \A e \in out : \A n \in DOMAIN e.events :
        /\ TagValue(e.events[n].tags, "target") = Some(cfg.targets[e.url])
        /\ TagValue(e.events[n].tags, "module") = Some(cfg.module)

\* The batch URL i gives for a body when it is scraped alone: the events of
\* the body enriched with the context built from the configuration and the
\* probe URL of the i-th target.
AloneBatch(i, body) ==
    enrich_events(body.events,
                  BuilderBuild([module |-> cfg.module, optional_labels |-> from_config(cfg)],
                               UrlOfTarget(i).uri))

\* The batches a URL may give when it is scraped alone.
AloneBatches(i) == {AloneBatch(i, body) : body \in {b \in Bodies : b.parses}}

\* Every batch, pending or handed downstream, is the batch its URL gives
\* when it is scraped alone.
BatchesAsAlone ==
    /\ \A i \in DOMAIN urls : req[i] = "pending" => pending[i] \in AloneBatches(i)
    /\ \A e \in out : e.events \in AloneBatches(e.url)

\* The step that enriches the batch of URL i leaves the contexts, the label
\* set of the builder and the batches of the other URLs as they are.
EnrichmentIsLocal ==
    \A i \in DOMAIN urls :
        (Running /\ req[i] = "sent" /\ req'[i] = "pending") =>
            /\ ctxs' = ctxs
            /\ context_builder' = context_builder
            /\ \A j \in DOMAIN urls \ {i} : pending'[j] = pending[j] /\ req'[j] = req[j]
            /\ out' = out

\* C21: under every interleaving of the scrapes, enriching the batch of one
\* URL changes no other URL's context or batch and not the label set, and
\* every batch has the tags it would have if its URL were scraped alone.
C21_NoSharedState == [](BatchesAsAlone) /\ [][EnrichmentIsLocal]_vars

\* The batches of two URLs with different targets are pending at the same
\* time.
C21_Witness ==
    /\ Running
    /\ Len(urls) = 2
    /\ cfg.targets[1] # cfg.targets[2]
    /\ req[1] = "pending" /\ req[2] = "pending"
    /\ pending[1] # pending[2]

\* Whether the latest scrape of URL i ended without events: it failed or was
\* cancelled.
ScrapeWithoutEvents(i) == last[i] \in {"error", "unparsed", "cancelled"}

\* A batch is pending or handed downstream only for a scrape whose response
\* was received and parsed, and a scrape that failed or was cancelled has
\* none.
OnlyParsedScrapesYield ==
    \A i \in DOMAIN urls :
        /\ (req[i] = "pending" \/ EmittedThisCycle(i)) => last[i] = "events"
        /\ (ScrapeWithoutEvents(i) /\ req[i] # "sent") =>
               pending[i] = <<>> /\ ~EmittedThisCycle(i)

\* Whether enrich_events has run on a batch: each measurement has the target
\* tag and the module tag enrichment sets.
IsEnriched(batch) ==
    \A n \in DOMAIN batch :
        /\ "target" \in DOMAIN batch[n].tags
        /\ TagValue(batch[n].tags, "module") = Some(cfg.module)

\* Every batch waiting to be handed downstream, and every batch handed
\* downstream, has been enriched.
OnlyEnrichedBatches ==
    /\ \A i \in DOMAIN urls : req[i] = "pending" => IsEnriched(pending[i])
    /\ \A e \in out : IsEnriched(e.events)

\* A step that hands a batch downstream hands the enriched batch of a URL
\* whose response was parsed; a step that enriches a batch is the step in
\* which the response of that URL is received and parsed.
CycleOrder ==
    /\ out' # out =>
           \E i \in DOMAIN urls :
               /\ req[i] = "pending" /\ last[i] = "events"
               /\ out' = out \cup {[url |-> i, cycle |-> cycles[i], events |-> pending[i]]}
    /\ \A i \in DOMAIN urls :
           (Running /\ req[i] # "pending" /\ req'[i] = "pending") =>
               req[i] = "sent" /\ last'[i] = "events"

\* C22: a batch is handed downstream only after its enrichment, and
\* enrichment runs only for a scrape whose response was received and parsed:
\* a cancelled, timed-out or failed scrape leads to no enrichment and no
\* emission.
C22_CycleOrdering ==
    [](Running \/ spc = "stopped" => OnlyParsedScrapesYield /\ OnlyEnrichedBatches)
        /\ [][CycleOrder]_vars

\* The source has been shut down while the scrape of the first URL was in
\* progress and after the batch of the second URL was handed downstream.
C22_Witness ==
    /\ spc = "stopped"
    /\ Len(urls) = 2
    /\ last[1] = "cancelled"
    /\ last[2] = "events" /\ EmittedThisCycle(2)
    /\ \A e \in out : e.url = 2

---------------------------------------------------------------------------
(* Claims about enrich_events (checked under SpecEnrich)                   *)

\* enrich_events has returned.
Enriched == epc = "done"

TagsBefore(i) == ebefore[i].tags

TagsAfter(i) == events[i].tags

\* Whether the ad-hoc map holds the key with a non-empty value.
AdhocSets(k) ==
    \E j \in DOMAIN ectx.optional_labels.custom :
        /\ ectx.optional_labels.custom[j][1] = k
        /\ ectx.optional_labels.custom[j][2] # <<>>

\* The value the ad-hoc map holds for a key it holds.
AdhocValue(k) ==
    LET j == CHOOSE j \in DOMAIN ectx.optional_labels.custom :
                 ectx.optional_labels.custom[j][1] = k
    IN  ectx.optional_labels.custom[j][2]

\* Whether the target step, the module step or a predefined-label step sets k.
BuiltinSets(k) ==
    \/ k \in {"target", "module"}
    \/ /\ k \in Range(PredefinedKeys)
       /\ IsSome(PredefinedValue(ectx.optional_labels, k))
       /\ Unwrap(PredefinedValue(ectx.optional_labels, k)) # <<>>

AdhocKeys == {ectx.optional_labels.custom[j][1] : j \in DOMAIN ectx.optional_labels.custom}

\* The keys enrichment sets.
SetKeys ==
    {k \in {"target", "module"} \cup Range(PredefinedKeys) \cup AdhocKeys :
        BuiltinSets(k) \/ AdhocSets(k)}

\* C7 as stated: after enrichment every measurement's target tag is the
\* context's target and its module tag the context's module.
C7_TargetAndModuleTags ==
    Enriched =>
        \A i \in DOMAIN events :
            /\ TagValue(TagsAfter(i), "target") = Some(ectx.target)
            /\ TagValue(TagsAfter(i), "module") = Some(ectx.module)

\* C7 (amended): after enrichment every measurement's target (module) tag is
\* the context's target (module), unless the ad-hoc map holds a non-empty
\* value under the key target (module): then the tag has that ad-hoc value.
C7_TargetAndModuleTagsUnlessAdhoc ==
    Enriched =>
        \A i \in DOMAIN events :
            /\ TagValue(TagsAfter(i), "target")
                 = Some(IF AdhocSets("target") THEN AdhocValue("target") ELSE ectx.target)
            /\ TagValue(TagsAfter(i), "module")
                 = Some(IF AdhocSets("module") THEN AdhocValue("module") ELSE ectx.module)

\* A batch of two measurements, the first with a target tag of its own, has
\* been enriched with an empty context target and an ad-hoc module label.
C7_Witness ==
    /\ Enriched
    /\ Len(events) = 2
    /\ "target" \in DOMAIN TagsBefore(1)
    /\ ectx.target = <<>>
    /\ AdhocSets("module") /\ ~AdhocSets("target")

C9_ExportedOnlyOnConflict ==
    Enriched =>
        \A i \in DOMAIN events : \A k \in SetKeys :
            k \notin DOMAIN TagsBefore(i) => Exported(k) \notin DOMAIN TagsAfter(i)

\* The keys C9 (amended) is about: set by one step only, with exported_k not
\* set by enrichment and k not the exported_ name of a key enrichment sets.
SetOnceKeys ==
    LET set == SetKeys
    IN  {k \in set :
            /\ ~(BuiltinSets(k) /\ AdhocSets(k))
            /\ Exported(k) \notin set
            /\ \A j \in set : k # Exported(j)}

\* C9 (amended): for every key k that exactly one step of enrichment sets,
\* such that exported_k is not a key enrichment sets and k is not exported_j
\* for a key j enrichment sets: a measurement that had neither a tag k nor a
\* tag exported_k before has no tag exported_k after.
C9_ExportedOnlyOnConflictSetOnce ==
    Enriched =>
        \A i \in DOMAIN events : \A k \in SetOnceKeys :
            (k \notin DOMAIN TagsBefore(i) /\ Exported(k) \notin DOMAIN TagsBefore(i))
                => Exported(k) \notin DOMAIN TagsAfter(i)

\* A measurement without region and module tags has been enriched by a
\* context with a configured region and an ad-hoc label.
C9_Witness ==
    /\ Enriched
    /\ {"region", "module", "env"} \subseteq SetOnceKeys
    /\ DOMAIN TagsBefore(1) \cap {"region", "exported_region", "module"} = {}
    /\ "region" \in DOMAIN TagsAfter(1)

\* The keys enrichment may touch: target, module, the predefined keys, the
\* ad-hoc keys, and the exported_ counterpart of each.
TouchableKeys ==
    LET ks == {"target", "module"} \cup Range(PredefinedKeys) \cup AdhocKeys
    IN  ks \cup {Exported(k) : k \in ks}

\* C10: every tag whose key is not target, module, a predefined key, an
\* ad-hoc key or the exported_ counterpart of one of them is present after
\* enrichment exactly when it was present before, with the same value.
C10_Frame ==
    Enriched =>
        \A i \in DOMAIN events :
            \A k \in (DOMAIN TagsBefore(i) \cup DOMAIN TagsAfter(i)) \ TouchableKeys :
                /\ k \in DOMAIN TagsBefore(i)
                /\ k \in DOMAIN TagsAfter(i)
                /\ TagsAfter(i)[k] = TagsBefore(i)[k]

\* A measurement with an instance tag and a conflicting target tag has been
\* enriched with ad-hoc labels.
C10_Witness ==
    /\ Enriched
    /\ {"instance", "target"} \subseteq DOMAIN TagsBefore(1)
    /\ ectx.optional_labels.custom # <<>>
    /\ "instance" \in DOMAIN TagsAfter(1)

\* Whether enrichment leaves the value a tag k had before where one step
\* puts it: k is not set by two steps, exported_k is not itself a key
\* enrichment sets, and k is not the exported_ name of a key enrichment sets.
Unclobbered(k) ==
    LET set == SetKeys
    IN  /\ ~(BuiltinSets(k) /\ AdhocSets(k))
        /\ Exported(k) \notin set
        /\ \A j \in set : k # Exported(j)

\* C11 as stated: every tag value a measurement carried before enrichment is
\* carried after it, under the same key or under exported_<key>.
C11_NoValueDropped ==
    Enriched =>
        \A i \in DOMAIN events : \A k \in DOMAIN TagsBefore(i) :
            \/ TagValue(TagsAfter(i), k) = Some(TagsBefore(i)[k])
            \/ TagValue(TagsAfter(i), Exported(k)) = Some(TagsBefore(i)[k])

\* C11 (amended): the value of a tag k that is set by at most one step, whose
\* exported_k is not a key enrichment sets and which is not the exported_
\* name of a key enrichment sets, is carried after enrichment: under
\* exported_k when enrichment sets k, under k otherwise.
C11_NoValueDroppedUnclobbered ==
    Enriched =>
        \A i \in DOMAIN events : \A k \in DOMAIN TagsBefore(i) :
            Unclobbered(k) =>
                IF k \in SetKeys
                THEN TagValue(TagsAfter(i), Exported(k)) = Some(TagsBefore(i)[k])
                ELSE TagValue(TagsAfter(i), k) = Some(TagsBefore(i)[k])

\* A measurement with a target tag and an instance tag has been enriched by
\* a context with ad-hoc labels: the target value has moved, the instance
\* value has stayed.
C11_Witness ==
    /\ Enriched
    /\ DOMAIN TagsBefore(1) = {"target", "instance"}
    /\ Unclobbered("target") /\ Unclobbered("instance")
    /\ ectx.optional_labels.custom # <<>>
    /\ TagsAfter(1)["target"] # TagsBefore(1)["target"]

\* Whether the predefined label k is absent or the empty string.
Skipped(k) == k \in Range(PredefinedKeys) /\ ~BuiltinSets(k)

\* C12 as stated: for a predefined key that is absent or empty and is not an
\* ad-hoc key, the tags k and exported_k are the same after enrichment as
\* before.
C12_SkippedLabelUntouched ==
    Enriched =>
        \A i \in DOMAIN events : \A k \in Range(PredefinedKeys) :
            (Skipped(k) /\ k \notin AdhocKeys) =>
                /\ TagValue(TagsAfter(i), k) = TagValue(TagsBefore(i), k)
                /\ TagValue(TagsAfter(i), Exported(k)) = TagValue(TagsBefore(i), Exported(k))

\* C12 (amended): for a predefined key that is absent or empty, when neither
\* k nor exported_k is an ad-hoc key, the tags k and exported_k are the same
\* after enrichment as before.
C12_SkippedLabelUntouchedUnlessAdhoc ==
    Enriched =>
        \A i \in DOMAIN events : \A k \in Range(PredefinedKeys) :
            (Skipped(k) /\ k \notin AdhocKeys /\ Exported(k) \notin AdhocKeys) =>
                /\ TagValue(TagsAfter(i), k) = TagValue(TagsBefore(i), k)
                /\ TagValue(TagsAfter(i), Exported(k)) = TagValue(TagsBefore(i), Exported(k))

\* A measurement with a region tag and an exported_region tag has been
\* enriched by a context whose region label is the empty string.
C12_Witness ==
    /\ Enriched
    /\ ectx.optional_labels.region = Some(<<>>)
    /\ {"region", "exported_region"} \cap AdhocKeys = {}
    /\ {"region", "exported_region"} \subseteq DOMAIN TagsBefore(1)

\* The configured value of a predefined label that is configured.
PredefinedOf(k) == Unwrap(PredefinedValue(ectx.optional_labels, k))

\* Whether k is a predefined key configured non-empty.
Configured(k) == k \in Range(PredefinedKeys) /\ BuiltinSets(k)

\* C13 as stated: a predefined key configured to a non-empty v that is not
\* an ad-hoc key ends as k=v, and a tag k=w the measurement had ends as
\* exported_k=w.
C13_PredefinedLabelSet ==
    Enriched =>
        \A i \in DOMAIN events : \A k \in Range(PredefinedKeys) :
            (Configured(k) /\ k \notin AdhocKeys) =>
                /\ TagValue(TagsAfter(i), k) = Some(PredefinedOf(k))
                /\ k \in DOMAIN TagsBefore(i) =>
                       TagValue(TagsAfter(i), Exported(k)) = Some(TagsBefore(i)[k])

\* C13 (amended): a predefined key configured to a non-empty v that is not
\* an ad-hoc key ends as k=v; a tag k=w the measurement had ends as
\* exported_k=w when the ad-hoc map holds no non-empty value under
\* exported_k.
C13_PredefinedLabelSetUnlessAdhocExported ==
    Enriched =>
        \A i \in DOMAIN events : \A k \in Range(PredefinedKeys) :
            (Configured(k) /\ k \notin AdhocKeys) =>
                /\ TagValue(TagsAfter(i), k) = Some(PredefinedOf(k))
                /\ (k \in DOMAIN TagsBefore(i) /\ ~AdhocSets(Exported(k))) =>
                       TagValue(TagsAfter(i), Exported(k)) = Some(TagsBefore(i)[k])

\* A measurement with a region tag different from the configured region has
\* been enriched, with ad-hoc labels that do not concern region.
C13_Witness ==
    /\ Enriched
    /\ Configured("region")
    /\ "region" \in DOMAIN TagsBefore(1)
    /\ TagsBefore(1)["region"] # PredefinedOf("region")
    /\ ectx.optional_labels.custom # <<>>
    /\ {"region", "exported_region"} \cap AdhocKeys = {}

\* The pairs of the ad-hoc map.
AdhocPairs == Range(ectx.optional_labels.custom)

\* C14 as stated: every pair (k, v) of the ad-hoc map ends as tag k=v.
C14_AdhocAlwaysInjected ==
    Enriched =>
        \A i \in DOMAIN events : \A kv \in AdhocPairs :
            TagValue(TagsAfter(i), kv[1]) = Some(kv[2])

\* The tags of a measurement after the target, module and predefined steps,
\* before the ad-hoc labels are applied.
TagsBeforeAdhoc(i) ==
    EnrichTags(TagsBefore(i), [ectx EXCEPT !.optional_labels.custom = <<>>])

\* The values the ad-hoc pass may leave under an ad-hoc key k with value v:
\* v, and, when k is exported_j for an ad-hoc key j with a non-empty value
\* and a tag j is there when the ad-hoc labels are applied, the value of
\* that tag (the rename of j overwrites k when the map yields j after k).
AdhocOutcomes(i, kv) ==
    {kv[2]} \cup {TagsBeforeAdhoc(i)[j] :
                    j \in {j \in AdhocKeys \cap DOMAIN TagsBeforeAdhoc(i) :
                              AdhocSets(j) /\ kv[1] = Exported(j)}}

\* C14 (amended): every pair (k, v) of the ad-hoc map with v non-empty ends
\* as tag k=v, unless k is exported_j for another ad-hoc key j: then tag k
\* ends as v or as the value tag j had when the ad-hoc labels were applied.
C14_NonEmptyAdhocInjected ==
    Enriched =>
        \A i \in DOMAIN events : \A kv \in AdhocPairs :
            kv[2] # <<>> => TagValue(TagsAfter(i), kv[1]) \in {Some(v) : v \in AdhocOutcomes(i, kv)}

\* A context with a configured region and ad-hoc labels for region and
\* target has enriched a measurement that had a region tag.
C14_Witness ==
    /\ Enriched
    /\ Configured("region")
    /\ AdhocSets("region") /\ AdhocSets("target")
    /\ "region" \in DOMAIN TagsBefore(1)
    /\ TagsAfter(1)["region"] = AdhocValue("region")

\* C15 as stated: a measurement with a tag k=w, k an ad-hoc key, ends with
\* exported_k=w and k set to the ad-hoc value.
C15_AdhocConflictRenamed ==
    Enriched =>
        \A i \in DOMAIN events : \A k \in AdhocKeys \cap DOMAIN TagsBefore(i) :
            /\ TagValue(TagsAfter(i), Exported(k)) = Some(TagsBefore(i)[k])
            /\ TagValue(TagsAfter(i), k) = Some(AdhocValue(k))

\* C15 (amended): a measurement with a tag k=w, k an ad-hoc key with a
\* non-empty value that no other step sets, exported_k not a key enrichment
\* sets and k not the exported_ name of a key enrichment sets, ends with
\* exported_k=w and k set to the ad-hoc value.
C15_AdhocConflictRenamedUnclobbered ==
    Enriched =>
        \A i \in DOMAIN events : \A k \in AdhocKeys \cap DOMAIN TagsBefore(i) :
            (AdhocSets(k) /\ Unclobbered(k)) =>
                /\ TagValue(TagsAfter(i), Exported(k)) = Some(TagsBefore(i)[k])
                /\ TagValue(TagsAfter(i), k) = Some(AdhocValue(k))

\* A measurement with a region tag and an exported_region tag has been
\* enriched by a context with region as an ad-hoc label only.
C15_Witness ==
    /\ Enriched
    /\ AdhocSets("region") /\ Unclobbered("region")
    /\ {"region", "exported_region"} \subseteq DOMAIN TagsBefore(1)
    /\ TagsBefore(1)["region"] # TagsBefore(1)["exported_region"]

\* The case of C16: the measurement has a tag k, k is a predefined key
\* configured non-empty and an ad-hoc key with a non-empty value.
Cascade(i, k) ==
    /\ k \in DOMAIN TagsBefore(i)
    /\ Configured(k)
    /\ AdhocSets(k)

\* C16 as stated: in the cascade, k ends as the ad-hoc value, exported_k as
\* the predefined value, and the original value is under neither.
C16_CascadeLosesOriginal ==
    Enriched =>
        \A i \in DOMAIN events : \A k \in Range(PredefinedKeys) :
            Cascade(i, k) =>
                /\ TagValue(TagsAfter(i), k) = Some(AdhocValue(k))
                /\ TagValue(TagsAfter(i), Exported(k)) = Some(PredefinedOf(k))
                /\ TagValue(TagsAfter(i), k) # Some(TagsBefore(i)[k])
                /\ TagValue(TagsAfter(i), Exported(k)) # Some(TagsBefore(i)[k])

\* The values the cascade may leave under exported_k: the predefined value,
\* and the ad-hoc value of exported_k when the ad-hoc map has one (which of
\* the two depends on the order the map yields k and exported_k in).
CascadeExported(k) ==
    {PredefinedOf(k)} \cup
        (IF AdhocSets(Exported(k)) THEN {AdhocValue(Exported(k))} ELSE {})

\* C16 (amended): in the cascade, k ends as the ad-hoc value and exported_k
\* as the predefined value, or as the ad-hoc value of exported_k when the
\* ad-hoc map has one; the original value is under k or exported_k only if
\* it equals one of these values.
C16_CascadeOutcome ==
    Enriched =>
        \A i \in DOMAIN events : \A k \in Range(PredefinedKeys) :
            Cascade(i, k) =>
                /\ TagValue(TagsAfter(i), k) = Some(AdhocValue(k))
                /\ TagValue(TagsAfter(i), Exported(k)) \in {Some(v) : v \in CascadeExported(k)}
                /\ TagsBefore(i)[k] \notin ({AdhocValue(k)} \cup CascadeExported(k)) =>
                     /\ TagValue(TagsAfter(i), k) # Some(TagsBefore(i)[k])
                     /\ TagValue(TagsAfter(i), Exported(k)) # Some(TagsBefore(i)[k])

\* A measurement with a region tag that is neither the predefined nor the
\* ad-hoc region has gone through the cascade.
C16_Witness ==
    /\ Enriched
    /\ Cascade(1, "region")
    /\ ~AdhocSets("exported_region")
    /\ TagsBefore(1)["region"] \notin {AdhocValue("region"), PredefinedOf("region")}
    /\ TagsAfter(1)["exported_region"] = PredefinedOf("region")

\* The orders a map with the pairs of c may yield them in.
Orders(c) == {d \in [DOMAIN c -> Range(c)] : Range(d) = Range(c)}

\* The context with its ad-hoc map iterated in another order.
Reordered(d) == [ectx EXCEPT !.optional_labels.custom = d]

\* C17: the tags after enrichment are the same whatever order the ad-hoc
\* pairs of the custom map are applied in.
C17_OrderIndependent ==
    Enriched =>
        \A d \in Orders(ectx.optional_labels.custom) :
            enrich_events(ebefore, Reordered(d)) = events

\* The tags of measurement i before enrichment, with target and module set
\* to the context's and nothing else touched.
WithTargetAndModule(i) ==
    [k \in DOMAIN TagsBefore(i) \cup {"target", "module"} |->
        IF k = "target" THEN ectx.target
        ELSE IF k = "module" THEN ectx.module
        ELSE TagsBefore(i)[k]]

\* C25: with no predefined and no ad-hoc labels, a measurement without a
\* target and without a module tag ends with exactly its original tags plus
\* target = ctx.target and module = ctx.module.
C25_NoLabelsPurelyAdditive ==
    Enriched /\ ectx.optional_labels = NoLabels =>
        \A i \in DOMAIN events :
            "target" \notin DOMAIN TagsBefore(i) /\ "module" \notin DOMAIN TagsBefore(i) =>
                TagsAfter(i) = WithTargetAndModule(i)

\* A measurement with an instance and an exported_target tag, and no target
\* or module tag, was enriched by a context without labels.
C25_Witness ==
    /\ Enriched
    /\ ectx.optional_labels = NoLabels
    /\ ectx.target # <<>>
    /\ DOMAIN TagsBefore(1) = {"instance", "exported_target"}
    /\ DOMAIN TagsAfter(1) = {"instance", "exported_target", "target", "module"}

\* Measurement i has gone through the loop body: it has a target and a
\* module tag, and an exported_target tag when it came with a target tag.
HasBeenEnriched(i) ==
    /\ {"target", "module"} \subseteq DOMAIN TagsAfter(i)
    /\ "target" \in DOMAIN TagsBefore(i) => "exported_target" \in DOMAIN TagsAfter(i)

\* C27: enrich_events changes tags only: the batch has the same measurements
\* in the same order, each with its name, kind and value, and every
\* measurement of the batch is enriched.
C27_OnlyTagsChange ==
    Enriched =>
        /\ Len(events) = Len(ebefore)
        /\ \A i \in DOMAIN events :
              /\ events[i].name = ebefore[i].name
              /\ events[i].kind = ebefore[i].kind
              /\ events[i].value = ebefore[i].value
              /\ DOMAIN events[i] = DOMAIN ebefore[i]
              /\ HasBeenEnriched(i)

\* A batch of two different measurements was enriched, and the second one,
\* which came with a target tag, has it renamed.
C27_Witness ==
    /\ Enriched
    /\ Len(events) = 2
    /\ events[1].name # events[2].name
    /\ events[1].value # events[2].value
    /\ "exported_target" \notin DOMAIN TagsBefore(2)
    /\ "exported_target" \in DOMAIN TagsAfter(2)

\* The tags every measurement ends with are those the loop body gives its
\* own tags under the context, whatever else the batch holds.
OwnTagsAndContextOnly ==
    Enriched =>
        \A i \in DOMAIN events : TagsAfter(i) = EnrichTags(TagsBefore(i), ectx)

\* A step leaves the context (target, module, label set) as it was.
ContextUnchanged == ectx' = ectx

AllSteps == BuiltinSteps(ectx) \o CustomSteps(ectx)

RECURSIVE StepTrace(_, _)
\* The tags before the first step and after each step, in order.
StepTrace(tags, steps) ==
    <<tags>> \o (IF steps = <<>> THEN <<>>
                 ELSE StepTrace(ApplyStep(tags, Head(steps)), Tail(steps)))

\* C29: enrichment removes no tag key: every key a measurement has before
\* enrich_events it has after it, so the number of tags does not decrease,
\* and the same holds from each rename-then-set step to the next.
C29_KeysNeverRemoved ==
    Enriched =>
        \A i \in DOMAIN events :
            LET trace == StepTrace(TagsBefore(i), AllSteps)
            IN  /\ DOMAIN TagsBefore(i) \subseteq DOMAIN TagsAfter(i)
                /\ Cardinality(DOMAIN TagsAfter(i)) >= Cardinality(DOMAIN TagsBefore(i))
                /\ trace[Len(trace)] = TagsAfter(i)
                /\ \A n \in 1..(Len(trace) - 1) :
                      DOMAIN trace[n] \subseteq DOMAIN trace[n + 1]

\* A measurement with a target and a region tag went through the renames of
\* both, with the region label configured, and kept both keys.
C29_Witness ==
    /\ Enriched
    /\ DOMAIN TagsBefore(1) = {"target", "region"}
    /\ IsSome(ectx.optional_labels.region)
    /\ TagsAfter(1)["region"] # TagsBefore(1)["region"]
    /\ {"target", "region", "exported_target", "exported_region"}
         \subseteq DOMAIN TagsAfter(1)

RECURSIVE Reach(_, _, _)
\* The pairs <<S, tags>> of a set S of steps, those of layer and up to n
\* more, applied each once in some order, and the tags that order gives.
Reach(layer, steps, n) ==
    IF n = 0 THEN layer
    ELSE layer \cup
         Reach(UNION {{<<pr[1] \cup {x}, ApplyStep(pr[2], steps[x])>> :
                           x \in DOMAIN steps \ pr[1]} : pr \in layer},
               steps, n - 1)

\* Every order of every subset of the steps, from the tags given.
AnyOrderReached(tags, steps) == Reach({<<{}, tags>>}, steps, Len(steps))

\* Whether the step sets its key: the target and module steps always, a
\* label step when the label is configured and not empty.
Sets(step) == step.always \/ (IsSome(step.value) /\ Unwrap(step.value) # <<>>)

\* The steps of the eight that set their key, and the others.
SettingSteps == SelectSeq(BuiltinSteps(ectx), Sets)

SkippedSteps == SelectSeq(BuiltinSteps(ectx), LAMBDA st : ~Sets(st))

\* C30: the target, module and six predefined steps applied in any order
\* give the tag map enrich_events gives (observed where no ad-hoc pass
\* follows them: the eight steps do not read the ad-hoc labels).  The orders
\* are those of the steps that set their key; a step that sets nothing
\* changes none of the tag maps these orders go through, wherever it stands.
C30_BuiltinStepsCommute ==
    Enriched /\ ectx.optional_labels.custom = <<>> =>
        \A i \in DOMAIN events :
            LET reached == AnyOrderReached(TagsBefore(i), SettingSteps)
            IN  /\ \A pr \in reached : \A n \in DOMAIN SkippedSteps :
                      ApplyStep(pr[2], SkippedSteps[n]) = pr[2]
                /\ {pr[2] : pr \in {q \in reached : q[1] = DOMAIN SettingSteps}}
                     = {TagsAfter(i)}

\* All eight steps set their key on a measurement that came with a target
\* and a region tag, both renamed.
C30_Witness ==
    /\ Enriched
    /\ Len(SettingSteps) = 8
    /\ {"target", "region"} \subseteq DOMAIN TagsBefore(1)
    /\ {"exported_target", "exported_region", "geohash", "provider"}
         \subseteq DOMAIN TagsAfter(1)

====
